---- MODULE Spec2Model ----
(***************************************************************************)
(* AI Persona Universe: the view-stage navigation of the React App         *)
(* component and the Express backend (persona registry, chat endpoint,     *)
(* canned-response selector).                                              *)
(*                                                                         *)
(* Coordinates are held in thousandths (4 -> 4000) so that the trait       *)
(* positions cos(angle)*2, sin(angle)*2 are integers.                      *)
(***************************************************************************)
EXTENDS Integers, Sequences, FiniteSets, TLC

VARIABLES
    stage,            \* App: useState 'solar' | 'planet' | 'trait'
    selectedPersona,  \* App: useState AIPersona | null   (held by id)
    selectedTrait,    \* App: useState Trait | null       (held by id)
    targetPosition,   \* App: useState [number, number, number]
    isChatOpen,       \* App: useState boolean
    last,             \* history: the handler that ran last, its arguments and the state it ran in
    chat,             \* backend: per client session, the POST /api/chat request in progress:
                      \*   pc (idle, delay = suspended on the timer, done), the request body, the persona
                      \*   looked up, the outcome of generatePersonaResponse, the response sent
    lookup,           \* backend: the last request to a route that answers at once, and its response
    registry,         \* backend: the module-level object aiPersonas
    timers,           \* backend: the sessions whose setTimeout(resolve, 800) is pending, in the order set
    sent,             \* backend: per client session, the number of responses written for its current request
    messages,         \* ChatInterface: useState Message[]
    inputText,        \* ChatInterface: useState string (held as a sequence of characters)
    isTyping,         \* ChatInterface: useState boolean
    inflight,         \* ChatInterface: the calls of handleSendMessage suspended on aiService.sendMessage
    lastUi            \* history: the ChatInterface step that ran last, and the state it ran in

navVars == <<stage, selectedPersona, selectedTrait, targetPosition, isChatOpen, last>>
backendVars == <<chat, lookup, registry, timers, sent>>
uiVars == <<messages, inputText, isTyping, inflight, lastUi>>
vars == <<stage, selectedPersona, selectedTrait, targetPosition, isChatOpen, last,
          chat, lookup, registry, timers, sent, messages, inputText, isTyping, inflight, lastUi>>

\* JavaScript null, for the state of the App
Null == "null"

(***************************************************************************)
(* Frontend catalogue                                                      *)
(***************************************************************************)

\* const aiPersonas: AIPersona[] -- ids in array order
PersonaIds == <<"tutor", "spiritual", "gym">>

\* traits of each frontend persona, by id, in declared order
PersonaTraits(p) ==
    CASE p = "tutor"     -> <<"curious", "socratic", "visual-explanation", "mentorship">>
      [] p = "spiritual" -> <<"tantric-tone", "non-dualist", "quiet-pacing">>
      [] p = "gym"       -> <<"spartan-coach", "micro-data", "logs-everything">>

\* position of each frontend persona
PersonaPosition(p) ==
    CASE p = "tutor"     -> <<4000, 0, 0>>
      [] p = "spiritual" -> <<-3000, 0, 2000>>
      [] p = "gym"       -> <<0, 0, -4000>>

Personas == {PersonaIds[i] : i \in DOMAIN PersonaIds}

\* const coreTraits: the traits of the Sun, by id, in declared order (each inherited: true)
coreTraits ==
    <<"empathy-first", "depth-over-speed", "analogies-stories", "adapts-tone", "anti-fluff">>

\* the inherited flag a trait of the frontend is declared with
Inherited(trait) == \E i \in DOMAIN coreTraits : coreTraits[i] = trait

SeqToSet(s) == {s[i] : i \in DOMAIN s}

AllTraits == UNION {SeqToSet(PersonaTraits(p)) : p \in Personas}

\* Math.cos(angle) * radius, radius = 2, angle = (index / n) * 2 * PI, in thousandths
CosTimesRadius(index, n) ==
    CASE n = 4 -> <<2000, 0, -2000, 0>>[index + 1]
      [] n = 3 -> <<2000, -1000, -1000>>[index + 1]

\* Math.sin(angle) * radius, in thousandths
SinTimesRadius(index, n) ==
    CASE n = 4 -> <<0, 2000, 0, -2000>>[index + 1]
      [] n = 3 -> <<0, 1732, -1732>>[index + 1]

\* the position [x, 0, z] the App gives the TraitNode of the index-th trait (0-based) of persona p
TraitNodePosition(p, index) ==
    <<CosTimesRadius(index, Len(PersonaTraits(p))), 0, SinTimesRadius(index, Len(PersonaTraits(p)))>>

Origin == <<0, 0, 0>>

\* every position a handler can be given
Positions ==
    {Origin} \cup {PersonaPosition(p) : p \in Personas}
             \cup UNION {{TraitNodePosition(p, i - 1) : i \in DOMAIN PersonaTraits(p)} : p \in Personas}

(***************************************************************************)
(* Navigation: the App component                                           *)
(***************************************************************************)

\* the navigation tuple the App passes to CameraController
Nav == [stage |-> stage, selectedPersona |-> selectedPersona,
        selectedTrait |-> selectedTrait, targetPosition |-> targetPosition]

\* the record kept of a handler call: its name, its arguments, the state it was called in
Call(op, persona, trait, position) ==
    [op |-> op, persona |-> persona, trait |-> trait, position |-> position, pre |-> Nav]

\* handlePlanetClick without its setTargetPosition(persona.position)
handlePlanetClick_NoTarget(persona) ==
    /\ selectedPersona' = persona
    /\ stage' = "planet"
    /\ isChatOpen' = TRUE
    /\ last' = Call("handlePlanetClick", persona, Null, Origin)
    /\ UNCHANGED <<selectedTrait, targetPosition, backendVars, uiVars>>

\* const handlePlanetClick = (persona) => { ... }
handlePlanetClick(persona) ==
    /\ selectedPersona' = persona
    /\ stage' = "planet"
    /\ targetPosition' = PersonaPosition(persona)
    /\ isChatOpen' = TRUE
    /\ last' = Call("handlePlanetClick", persona, Null, Origin)
    /\ UNCHANGED <<selectedTrait, backendVars, uiVars>>

\* handleTraitClick without its setTargetPosition(position)
handleTraitClick_NoTarget(trait, position) ==
    /\ selectedTrait' = trait
    /\ stage' = "trait"
    /\ last' = Call("handleTraitClick", Null, trait, position)
    /\ UNCHANGED <<selectedPersona, targetPosition, isChatOpen, backendVars, uiVars>>

\* const handleTraitClick = (trait, position) => { ... }
handleTraitClick(trait, position) ==
    /\ selectedTrait' = trait
    /\ stage' = "trait"
    /\ targetPosition' = position
    /\ last' = Call("handleTraitClick", Null, trait, position)
    /\ UNCHANGED <<selectedPersona, isChatOpen, backendVars, uiVars>>

\* the 'Back to Persona' button: onClick={() => setStage('planet')}
backToPersona ==
    /\ stage' = "planet"
    /\ last' = Call("backToPersona", Null, Null, Origin)
    /\ UNCHANGED <<selectedPersona, selectedTrait, targetPosition, isChatOpen, backendVars, uiVars>>

\* handleBackToSolar without its setStage('solar')
handleBackToSolar_KeepsStage ==
    /\ selectedPersona' = Null
    /\ selectedTrait' = Null
    /\ last' = Call("handleBackToSolar", Null, Null, Origin)
    /\ UNCHANGED <<stage, targetPosition, isChatOpen, backendVars, uiVars>>

\* const handleBackToSolar = () => { ... }
handleBackToSolar ==
    /\ stage' = "solar"
    /\ selectedPersona' = Null
    /\ selectedTrait' = Null
    /\ last' = Call("handleBackToSolar", Null, Null, Origin)
    /\ UNCHANGED <<targetPosition, isChatOpen, backendVars, uiVars>>

\* ChatInterface onClose={() => setIsChatOpen(false)}
onClose ==
    /\ isChatOpen' = FALSE
    /\ last' = Call("onClose", Null, Null, Origin)
    /\ UNCHANGED <<stage, selectedPersona, selectedTrait, targetPosition, backendVars, uiVars>>

\* the planets rendered in every stage
ClickPlanet_AnyStage ==
    \E p \in Personas : handlePlanetClick(p)

\* {stage === 'solar' && aiPersonas.map(persona => <Planet onClick={() => handlePlanetClick(persona)} />)}
ClickPlanet ==
    /\ stage = "solar"
    /\ \E p \in Personas : handlePlanetClick(p)

\* {stage === 'planet' && selectedPersona && selectedPersona.traits.map((trait, index) =>
\*    <TraitNode onClick={() => handleTraitClick(trait, [x, 0, z])} />)}
ClickTraitNode ==
    /\ stage = "planet"
    /\ selectedPersona # Null
    /\ \E i \in DOMAIN PersonaTraits(selectedPersona) :
          handleTraitClick(PersonaTraits(selectedPersona)[i], TraitNodePosition(selectedPersona, i - 1))

\* {stage === 'trait' && selectedTrait && ( ... <button onClick={() => setStage('planet')}> ... )}
ClickBackToPersona ==
    /\ stage = "trait"
    /\ selectedTrait # Null
    /\ backToPersona

\* the trait overlay without its 'Solar System' button
ClickBackToSolar_PlanetOnly ==
    /\ stage = "planet" /\ selectedPersona # Null
    /\ handleBackToSolar

\* the 'Back to Solar System' button of the planet overlay and the 'Solar System' button of the trait overlay
ClickBackToSolar ==
    /\ \/ stage = "planet" /\ selectedPersona # Null
       \/ stage = "trait" /\ selectedTrait # Null
    /\ handleBackToSolar

\* the close button of the chat, rendered only while the chat is open (if (!isOpen) return null)
ClickCloseChat ==
    /\ isChatOpen
    /\ onClose

\* a camera aimed at targetPosition in the planet stage as well
LookAt_TargetAlways ==
    IF stage = "planet" /\ selectedPersona # Null THEN targetPosition
    ELSE IF stage = "trait" /\ selectedTrait # Null THEN targetPosition
    ELSE Origin

\* CameraController: the point given to camera.lookAt
LookAt ==
    IF stage = "planet" /\ selectedPersona # Null THEN PersonaPosition(selectedPersona)
    ELSE IF stage = "trait" /\ selectedTrait # Null THEN targetPosition
    ELSE Origin

InitNav ==
    /\ stage = "solar"
    /\ selectedPersona = Null
    /\ selectedTrait = Null
    /\ targetPosition = Origin
    /\ isChatOpen = FALSE
    /\ last = [op |-> "init", persona |-> Null, trait |-> Null, position |-> Origin,
               pre |-> [stage |-> "solar", selectedPersona |-> Null,
                        selectedTrait |-> Null, targetPosition |-> Origin]]

(***************************************************************************)
(* ChatInterface: its state                                                *)
(*                                                                         *)
(* The App mounts one ChatInterface for its whole life (it renders null    *)
(* while isOpen is false), so its useState cells are initialised once,     *)
(* with the persona prop the App has at its first render: null.            *)
(***************************************************************************)

\* persona.name of each frontend persona
PersonaName(p) ==
    CASE p = "tutor"     -> "AI Tutor"
      [] p = "spiritual" -> "Spiritual Coach"
      [] p = "gym"       -> "Gym AI"

\* persona?.name
NameOf(p) == IF p = Null THEN Null ELSE PersonaName(p)

\* the text of the first message: persona ? `Hello! I'm your ${persona.name}. ${persona.description}
\* How can I help you today?` : 'Hello! How can I help you?'
WelcomeText(p) ==
    IF p # Null THEN [kind |-> "welcome", persona |-> PersonaName(p)]
    ELSE [kind |-> "welcome", persona |-> Null]

\* a Message (id and timestamp left out); cause is the number of the handleSendMessage
\* call the message comes from, 0 for the first message
Message(text, sender, personaName, cause) ==
    [text |-> text, sender |-> sender, persona |-> personaName, cause |-> cause]

\* the state handed to the history of a ChatInterface step
UiState == [messages |-> messages, inputText |-> inputText, isTyping |-> isTyping,
            inflight |-> inflight, persona |-> selectedPersona]

InitChatInterface ==
    /\ messages = <<Message(WelcomeText(Null), "ai", NameOf(Null), 0)>>
    /\ inputText = <<>>
    /\ isTyping = FALSE
    /\ inflight = {}
    /\ lastUi = [op |-> "init"]

(***************************************************************************)
(* Backend: JavaScript values                                              *)
(*                                                                         *)
(* Every value is a record with a field kind.  A property read obj[key] on *)
(* an object literal finds the object's own properties first and then the  *)
(* properties every object inherits from Object.prototype.                 *)
(***************************************************************************)

Undef == [kind |-> "undefined"]

\* a request field holding a string of characters (message) or a text (personaId, :id)
StringOf(chars) == [kind |-> "string", chars |-> chars]
TextOf(text) == [kind |-> "text", text |-> text]
NumberOf(n) == [kind |-> "number", n |-> n]

\* JavaScript truthiness, as used by !message, !personaId, if (persona), a || b
Truthy(v) ==
    CASE v.kind = "undefined" -> FALSE
      [] v.kind = "string"    -> v.chars # <<>>
      [] v.kind = "text"      -> v.text # ""
      [] v.kind = "number"    -> v.n # 0
      [] OTHER                -> TRUE

\* the value of an inherited property: constructor is the function Object (length 1),
\* toString a function of length 0, __proto__ the object Object.prototype
ObjectPrototype(key) ==
    CASE key = "constructor" -> [kind |-> "function", name |-> "Object", length |-> 1]
      [] key = "toString"    -> [kind |-> "function", name |-> "toString", length |-> 0]
      [] key = "__proto__"   -> [kind |-> "object", name |-> "Object.prototype"]
      [] OTHER               -> Undef

\* obj[key] for an object literal whose own properties are the function own
GetProperty(own, key) ==
    IF key \in DOMAIN own THEN own[key] ELSE ObjectPrototype(key)

(***************************************************************************)
(* Backend: persona registry                                               *)
(***************************************************************************)

\* a trait record of the backend; intensity in tenths
Trait(id, intensity) == [id |-> id, intensity |-> intensity, inherited |-> FALSE]

\* const aiPersonas = { 'tutor': {...}, 'spiritual': {...}, 'gym': {...} }
aiPersonas ==
    [k \in {"tutor", "spiritual", "gym"} |->
        CASE k = "tutor" ->
               [kind |-> "persona", id |-> "tutor", name |-> "AI Tutor",
                traits |-> <<Trait("curious", 9), Trait("socratic", 8)>>]
          [] k = "spiritual" ->
               [kind |-> "persona", id |-> "spiritual", name |-> "Spiritual Coach",
                traits |-> <<Trait("tantric-tone", 8)>>]
          [] k = "gym" ->
               [kind |-> "persona", id |-> "gym", name |-> "Gym AI",
                traits |-> <<Trait("spartan-coach", 9)>>]]

\* the keys in alphabetical order
aiPersonasKeys_Sorted == <<"gym", "spiritual", "tutor">>

\* insertion order of the keys of aiPersonas
aiPersonasKeys == <<"tutor", "spiritual", "gym">>

\* Object.values(obj) for the registry object: the own enumerable properties, in insertion order
ObjectValues(obj) == [i \in DOMAIN aiPersonasKeys |-> obj[aiPersonasKeys[i]]]

\* persona.id, persona.traits: the persona's own property, or undefined on an inherited value
IdOf(persona) == IF persona.kind = "persona" THEN TextOf(persona.id) ELSE Undef
TraitsOf(persona) == IF persona.kind = "persona" THEN persona.traits ELSE Undef

\* the property key a value is converted to when used in obj[value]
PropertyKey(v) == IF v.kind = "text" THEN v.text ELSE "undefined"

(***************************************************************************)
(* Backend: generatePersonaResponse                                        *)
(***************************************************************************)

UpperCase == <<"A", "B", "C", "D", "E", "F", "G", "H", "I", "J", "K", "L", "M",
               "N", "O", "P", "Q", "R", "S", "T", "U", "V", "W", "X", "Y", "Z">>
LowerCase == <<"a", "b", "c", "d", "e", "f", "g", "h", "i", "j", "k", "l", "m",
               "n", "o", "p", "q", "r", "s", "t", "u", "v", "w", "x", "y", "z">>

\* String.prototype.toLowerCase, character by character
ToLowerChar(c) ==
    IF \E i \in DOMAIN UpperCase : UpperCase[i] = c
    THEN LowerCase[CHOOSE i \in DOMAIN UpperCase : UpperCase[i] = c]
    ELSE c

\* the message used as it is, not lower-cased
toLowerCase_Identity(chars) == chars

toLowerCase(chars) == [i \in DOMAIN chars |-> ToLowerChar(chars[i])]

\* String.prototype.includes
includes(chars, sub) ==
    \E i \in 0..(Len(chars) - Len(sub)) : SubSeq(chars, i + 1, i + Len(sub)) = sub

\* messageLower.includes('hi') || messageLower.includes('hello') || messageLower.includes('hey')
IsGreeting(messageLower) ==
    \/ includes(messageLower, <<"h", "i">>)
    \/ includes(messageLower, <<"h", "e", "l", "l", "o">>)
    \/ includes(messageLower, <<"h", "e", "y">>)

\* the index-th (0-based) string literal of the pool of owner for a classification
Reply(owner, class, index) == [kind |-> "reply", owner |-> owner, class |-> class, index |-> index]

\* an array literal of n string literals
Pool(owner, class, n) == [kind |-> "array", items |-> [i \in 1..n |-> Reply(owner, class, i - 1)]]

\* const greetings = { 'tutor': [3 strings], 'spiritual': [3 strings], 'gym': [3 strings] }
greetings == [k \in {"tutor", "spiritual", "gym"} |-> Pool(k, "greeting", 3)]

\* const responses = { 'tutor': [4 strings], 'spiritual': [4 strings], 'gym': [4 strings] }
responses == [k \in {"tutor", "spiritual", "gym"} |-> Pool(k, "general", 4)]

\* Math.round in place of Math.floor: the index can be v.length, where the array has no element
RandomItem_Round(v) ==
    IF v.kind = "array" THEN {v.items[i] : i \in DOMAIN v.items} \cup {Undef} ELSE {Undef}

\* the values v[Math.floor(Math.random() * v.length)] can take: an element of an array;
\* undefined on a function (length 0 or 1, no property 0) or a plain object (length undefined)
RandomItem(v) ==
    IF v.kind = "array" THEN {v.items[i] : i \in DOMAIN v.items} ELSE {Undef}

Return(value) == [kind |-> "return", value |-> value]
Throw == [kind |-> "throw", value |-> Undef]

\* the outcomes of the body of generatePersonaResponse after the delay, over all random draws
generatePersonaResponse(message, persona) ==
    IF message.kind # "string"
    THEN {Throw}                            \* message.toLowerCase is not a function
    ELSE IF IsGreeting(toLowerCase(message.chars))
    THEN LET pool == GetProperty(greetings, PropertyKey(IdOf(persona)))
         IN  IF pool.kind = "undefined"
             THEN {Throw}                   \* cannot read properties of undefined
             ELSE {Return(v) : v \in RandomItem(pool)}
    ELSE LET own == GetProperty(responses, PropertyKey(IdOf(persona)))
             personaResponses == IF Truthy(own) THEN own ELSE responses["tutor"]
         IN  {Return(v) : v \in RandomItem(personaResponses)}

(***************************************************************************)
(* Backend: the routes                                                     *)
(***************************************************************************)

\* the client sessions whose chat requests are followed
Sessions == {"A", "B"}

\* values of the message field of a request body: absent, '', 'hi', 'This', 'what', the number 7
Messages ==
    {Undef, StringOf(<<>>), StringOf(<<"h", "i">>), StringOf(<<"T", "h", "i", "s">>),
     StringOf(<<"w", "h", "a", "t">>), NumberOf(7)}

\* texts used as persona ids in requests
IdTexts == {"tutor", "spiritual", "gym", "nonexistent", "constructor", "toString", "__proto__"}

\* values of the personaId field of a request body: absent, '', or a text
PersonaIdValues == {Undef, TextOf("")} \cup {TextOf(t) : t \in IdTexts}

Bodies == [message : Messages, personaId : PersonaIdValues]

NoBody == [message |-> Undef, personaId |-> Undef]
NoResponse == [status |-> 0]

\* res.status(code).json({ error: text })
ErrorResponse(code, text) == [status |-> code, error |-> text]

\* res.json({ message, personaId, traits, confidence: 0.85, suggestedActions: [...] }); confidence in hundredths
ChatResponse(response, personaId, persona) ==
    [status |-> 200, message |-> response, personaId |-> personaId, traits |-> TraitsOf(persona),
     confidence |-> 85, suggestedActions |-> <<"Add to Personality", "Ask Follow-up", "Change Topic">>]

\* generatePersonaResponse has not been called
NotCalled == [kind |-> "none", value |-> Undef]

Idle == [pc |-> "idle", body |-> NoBody, persona |-> Undef, outcome |-> NotCalled, response |-> NoResponse]

\* the chat route behind a blocking sleep: no request is taken while a delay is running
PostChat_Blocking(s, body) ==
    /\ chat[s].pc # "delay"
    /\ timers = <<>>
    /\ LET persona == GetProperty(registry, PropertyKey(body.personaId))
       IN  chat' = [chat EXCEPT ![s] =
              IF ~Truthy(body.message) \/ ~Truthy(body.personaId)
              THEN [pc |-> "done", body |-> body, persona |-> Undef, outcome |-> NotCalled,
                    response |-> ErrorResponse(400, "Message and personaId are required")]
              ELSE IF ~Truthy(persona)
              THEN [pc |-> "done", body |-> body, persona |-> Undef, outcome |-> NotCalled,
                    response |-> ErrorResponse(404, "Persona not found")]
              ELSE [pc |-> "delay", body |-> body, persona |-> persona, outcome |-> NotCalled,
                    response |-> NoResponse]]
    /\ timers' = IF chat'[s].pc = "delay" THEN Append(timers, s) ELSE timers
    /\ sent' = [sent EXCEPT ![s] = IF chat'[s].pc = "done" THEN 1 ELSE 0]
    /\ UNCHANGED <<navVars, uiVars, lookup, registry>>

\* the chat route with the persona looked up before the fields are validated
PostChat_LookupFirst(s, body) ==
    /\ chat[s].pc # "delay"
    /\ LET persona == GetProperty(registry, PropertyKey(body.personaId))
       IN  chat' = [chat EXCEPT ![s] =
              IF ~Truthy(persona)
              THEN [pc |-> "done", body |-> body, persona |-> Undef, outcome |-> NotCalled,
                    response |-> ErrorResponse(404, "Persona not found")]
              ELSE IF ~Truthy(body.message) \/ ~Truthy(body.personaId)
              THEN [pc |-> "done", body |-> body, persona |-> Undef, outcome |-> NotCalled,
                    response |-> ErrorResponse(400, "Message and personaId are required")]
              ELSE [pc |-> "delay", body |-> body, persona |-> persona, outcome |-> NotCalled,
                    response |-> NoResponse]]
    /\ timers' = IF chat'[s].pc = "delay" THEN Append(timers, s) ELSE timers
    /\ sent' = [sent EXCEPT ![s] = IF chat'[s].pc = "done" THEN 1 ELSE 0]
    /\ UNCHANGED <<navVars, uiVars, lookup, registry>>

\* the chat route requiring a context: a request without one is answered 400
PostChat_ContextRequired(s, body) ==
    /\ chat[s].pc # "delay"
    /\ LET persona == GetProperty(registry, PropertyKey(body.personaId))
       IN  chat' = [chat EXCEPT ![s] =
              IF ~Truthy(body.message) \/ ~Truthy(body.personaId)
                 \/ ("context" \in DOMAIN body /\ ~Truthy(body.context))
              THEN [pc |-> "done", body |-> body, persona |-> Undef, outcome |-> NotCalled,
                    response |-> ErrorResponse(400, "Message and personaId are required")]
              ELSE IF ~Truthy(persona)
              THEN [pc |-> "done", body |-> body, persona |-> Undef, outcome |-> NotCalled,
                    response |-> ErrorResponse(404, "Persona not found")]
              ELSE [pc |-> "delay", body |-> body, persona |-> persona, outcome |-> NotCalled,
                    response |-> NoResponse]]
    /\ timers' = IF chat'[s].pc = "delay" THEN Append(timers, s) ELSE timers
    /\ sent' = [sent EXCEPT ![s] = IF chat'[s].pc = "done" THEN 1 ELSE 0]
    /\ UNCHANGED <<navVars, uiVars, lookup, registry>>

\* app.post('/api/chat'), from the arrival of the request to the first await or to the response
PostChat(s, body) ==
    /\ chat[s].pc # "delay"
    /\ LET persona == GetProperty(registry, PropertyKey(body.personaId))
       IN  chat' = [chat EXCEPT ![s] =
              IF ~Truthy(body.message) \/ ~Truthy(body.personaId)
              THEN [pc |-> "done", body |-> body, persona |-> Undef, outcome |-> NotCalled,
                    response |-> ErrorResponse(400, "Message and personaId are required")]
              ELSE IF ~Truthy(persona)
              THEN [pc |-> "done", body |-> body, persona |-> Undef, outcome |-> NotCalled,
                    response |-> ErrorResponse(404, "Persona not found")]
              ELSE [pc |-> "delay", body |-> body, persona |-> persona, outcome |-> NotCalled,
                    response |-> NoResponse]]
    /\ timers' = IF chat'[s].pc = "delay" THEN Append(timers, s) ELSE timers
    /\ sent' = [sent EXCEPT ![s] = IF chat'[s].pc = "done" THEN 1 ELSE 0]
    /\ UNCHANGED <<navVars, uiVars, lookup, registry>>

\* the chat route without its catch block: a failure of the selector leaves the request unanswered
TimerFires_NoCatch(s) ==
    /\ chat[s].pc = "delay"
    /\ timers # <<>> /\ Head(timers) = s
    /\ timers' = Tail(timers)
    /\ \E outcome \in generatePersonaResponse(chat[s].body.message, chat[s].persona) :
          /\ chat' = [chat EXCEPT ![s] =
                IF outcome.kind = "throw"
                THEN [chat[s] EXCEPT !.outcome = outcome]
                ELSE [pc |-> "done", body |-> chat[s].body, persona |-> chat[s].persona,
                      outcome |-> outcome,
                      response |-> ChatResponse(outcome.value, chat[s].body.personaId, chat[s].persona)]]
          /\ sent' = [sent EXCEPT ![s] = IF outcome.kind = "throw" THEN @ ELSE @ + 1]
    /\ UNCHANGED <<navVars, uiVars, lookup, registry>>

\* the timer of generatePersonaResponse fires: the selector runs, and the route answers
\* with the chat response or, from its catch block, with 500.  All timers have the same
\* delay, so they fire in the order they were set.
TimerFires(s) ==
    /\ chat[s].pc = "delay"
    /\ timers # <<>> /\ Head(timers) = s
    /\ timers' = Tail(timers)
    /\ \E outcome \in generatePersonaResponse(chat[s].body.message, chat[s].persona) :
          chat' = [chat EXCEPT ![s] =
              [pc |-> "done", body |-> chat[s].body, persona |-> chat[s].persona,
               outcome |-> outcome,
               response |-> IF outcome.kind = "throw"
                            THEN ErrorResponse(500, "Internal server error")
                            ELSE ChatResponse(outcome.value, chat[s].body.personaId, chat[s].persona)]]
    /\ sent' = [sent EXCEPT ![s] = @ + 1]
    /\ UNCHANGED <<navVars, uiVars, lookup, registry>>

\* app.get('/api/personas')
GetPersonas ==
    /\ lookup' = [route |-> "/api/personas", id |-> "",
                  response |-> [status |-> 200, body |-> ObjectValues(registry)]]
    /\ UNCHANGED <<navVars, uiVars, chat, registry, timers, sent>>

\* app.get('/api/personas/:id')
GetPersonaById(id) ==
    /\ LET persona == GetProperty(registry, id)
       IN  lookup' = [route |-> "/api/personas/:id", id |-> id,
                      response |-> IF Truthy(persona)
                                   THEN [status |-> 200, body |-> persona]
                                   ELSE ErrorResponse(404, "Persona not found")]
    /\ UNCHANGED <<navVars, uiVars, chat, registry, timers, sent>>

\* values of the fields of the body of a personality update: absent, valid, invalid
UpdatePersonaIds == {Undef, TextOf("tutor"), TextOf("nonexistent")}
UpdateTraitIds == {Undef, TextOf("curious"), TextOf("unknown")}
UpdateActions == {Undef, TextOf("strengthen"), TextOf("remove"), TextOf("bogus")}
UpdateIntensities == {Undef, NumberOf(5), NumberOf(20)}

Updates ==
    [personaId : UpdatePersonaIds, traitId : UpdateTraitIds,
     action : UpdateActions, intensity : UpdateIntensities]

\* a personality update that applies the intensity to the trait of the persona, when both exist
PutPersonality_Applies(body) ==
    /\ lookup' = [route |-> "/api/personality", id |-> "", request |-> body,
                  response |-> [status |-> 200,
                                body |-> [success |-> TRUE, message |-> "Personality updated successfully"]]]
    /\ registry' =
          IF PropertyKey(body.personaId) \in DOMAIN registry /\ body.intensity.kind = "number"
          THEN [registry EXCEPT ![PropertyKey(body.personaId)].traits =
                   [i \in DOMAIN @ |->
                       IF @[i].id = PropertyKey(body.traitId)
                       THEN [@[i] EXCEPT !.intensity = body.intensity.n]
                       ELSE @[i]]]
          ELSE registry
    /\ UNCHANGED <<navVars, uiVars, chat, timers, sent>>

\* a personality update that answers 404 when the persona is not in the registry
PutPersonality_Validating(body) ==
    /\ lookup' = [route |-> "/api/personality", id |-> "", request |-> body,
                  response |-> IF Truthy(GetProperty(registry, PropertyKey(body.personaId)))
                               THEN [status |-> 200,
                                     body |-> [success |-> TRUE,
                                               message |-> "Personality updated successfully"]]
                               ELSE ErrorResponse(404, "Persona not found")]
    /\ UNCHANGED <<navVars, uiVars, chat, registry, timers, sent>>

\* app.put('/api/personality'): the body is destructured and logged, nothing else
PutPersonality(body) ==
    /\ lookup' = [route |-> "/api/personality", id |-> "", request |-> body,
                  response |-> [status |-> 200,
                                body |-> [success |-> TRUE, message |-> "Personality updated successfully"]]]
    /\ UNCHANGED <<navVars, uiVars, chat, registry, timers, sent>>

\* the instants new Date().toISOString() can report
Timestamps == {"2026-01-01T00:00:00.000Z", "2026-01-01T00:00:01.000Z"}

\* app.get('/api/health')
GetHealth ==
    /\ \E now \in Timestamps :
          lookup' = [route |-> "/api/health", id |-> "",
                     response |-> [status |-> 200, body |-> [status |-> "OK", timestamp |-> now]]]
    /\ UNCHANGED <<navVars, uiVars, chat, registry, timers, sent>>

InitBackend ==
    /\ chat = [s \in Sessions |-> Idle]
    /\ lookup = [route |-> "", id |-> "", response |-> NoResponse]
    /\ registry = aiPersonas
    /\ timers = <<>>
    /\ sent = [s \in Sessions |-> 0]

(***************************************************************************)
(* Specifications                                                          *)
(***************************************************************************)

Init == InitNav /\ InitChatInterface /\ InitBackend

\* the App as the user drives it: every handler behind the element that renders it
Next ==
    \/ ClickPlanet
    \/ ClickTraitNode
    \/ ClickBackToPersona
    \/ ClickBackToSolar
    \/ ClickCloseChat

\* the chat route as its clients drive it
NextBackend ==
    \/ \E s \in Sessions, body \in Bodies : PostChat(s, body)
    \/ \E s \in Sessions : TimerFires(s)

\* chat request bodies used when every route is driven together
ServerBodies ==
    [message : {StringOf(<<"h", "i">>), StringOf(<<"w", "h", "a", "t">>)},
     personaId : {TextOf("tutor"), TextOf("constructor")}]

\* the longest message built from ClassifyAlphabet
MaxMsgLen == 3

ClassifyAlphabet == {"h", "H", "i", "I", "e", "y"}

\* the messages of at most n characters over ClassifyAlphabet
RECURSIVE MessagesUpTo(_)
MessagesUpTo(n) ==
    IF n = 0 THEN {<<>>}
    ELSE LET shorter == MessagesUpTo(n - 1)
         IN  shorter \cup {Append(m, c) : m \in shorter, c \in ClassifyAlphabet}

\* messages a classification is tried on: the short ones and some words
ClassifyMessages ==
    (MessagesUpTo(MaxMsgLen) \ {<<>>}) \cup
    {<<"h", "e", "l", "l", "o">>, <<"H", "E", "L", "L", "O">>, <<"O", "h", " ", "H", "e", "L", "l", "O", "!">>,
     <<"H", "E", "Y">>, <<"t", "h", "i", "s">>, <<"T", "H", "I", "S">>, <<"w", "h", "a", "t">>,
     <<"h", "e", "l", "p">>, <<"h", "e", "l", " ", "l", "o">>, <<"h", " ", "i">>, <<"t", "h", "e", "y">>}

\* the chat route driven by one session with messages of every shape
NextClassify ==
    \/ \E m \in ClassifyMessages, id \in {"tutor", "gym"} :
          PostChat("A", [message |-> StringOf(m), personaId |-> TextOf(id)])
    \/ TimerFires("A")

\* every route of the backend, driven in any interleaving
NextServer ==
    \/ \E s \in Sessions, body \in ServerBodies : PostChat(s, body)
    \/ \E s \in Sessions : TimerFires(s)
    \/ GetPersonas
    \/ \E id \in IdTexts : GetPersonaById(id)
    \/ \E body \in Updates : PutPersonality(body)
    \/ GetHealth

\* values of the sessionId field of a chat request body
SessionIds == {TextOf("session_1"), TextOf("session_2")}

\* values of the context field: absent, or { previousMessages, userPreferences: {} } with
\* no or one earlier message
Contexts ==
    {Undef,
     [kind |-> "object", previousMessages |-> <<>>],
     [kind |-> "object", previousMessages |-> <<StringOf(<<"h", "i">>)>>]}

\* chat request bodies carrying the correlation fields
CorrelatedBodies ==
    [message : {StringOf(<<>>), StringOf(<<"h", "i">>), StringOf(<<"w", "h", "a", "t">>)},
     personaId : {TextOf("tutor"), TextOf("nonexistent")},
     sessionId : SessionIds,
     context : Contexts]

\* the chat route driven with requests that differ in their session id and context
NextCorrelated ==
    \/ \E s \in Sessions, body \in CorrelatedBodies : PostChat(s, body)
    \/ \E s \in Sessions : TimerFires(s)

\* chat request bodies of every path of the route: 400, 404, a selection, a failing selection
PathBodies ==
    [message : {StringOf(<<>>), StringOf(<<"h", "i">>), StringOf(<<"w", "h", "a", "t">>), NumberOf(7)},
     personaId : {TextOf("tutor"), TextOf("nonexistent"), TextOf("constructor")}]

\* the chat route driven through each of its paths
NextPaths ==
    \/ \E s \in Sessions, body \in PathBodies : PostChat(s, body)
    \/ \E s \in Sessions : TimerFires(s)

\* the navigation handlers called as functions, in any state and with any argument
NextHandlers ==
    \/ \E p \in Personas : handlePlanetClick(p)
    \/ \E t \in AllTraits, position \in Positions : handleTraitClick(t, position)
    \/ backToPersona
    \/ handleBackToSolar

Spec == Init /\ [][Next]_vars
SpecBackend == Init /\ [][NextBackend]_vars
SpecServer == Init /\ [][NextServer]_vars
SpecClassify == Init /\ [][NextClassify]_vars
SpecCorrelated == Init /\ [][NextCorrelated]_vars
\* the chat route with its timers: a timer that is set fires
SpecPathsFair == Init /\ [][NextPaths]_vars /\ \A s \in Sessions : WF_vars(TimerFires(s))
SpecHandlers == Init /\ [][NextHandlers]_vars

(***************************************************************************)
(* Properties of the navigation                                            *)
(***************************************************************************)

\* C1: in every state the user can reach, the focused trait (selectedTrait) is
\* non-null only while the stage is 'trait'.
C1_TraitOnlyInTraitFocus ==
    selectedTrait # Null => stage = "trait"

\* C2: in every state the user can reach, the focused persona (selectedPersona) is
\* non-null, one of the catalogue's personas, whenever the stage is not 'solar'.
C2_PersonaWheneverNotSolar ==
    stage # "solar" => selectedPersona # Null /\ selectedPersona \in Personas

\* the 'Back to Persona' button has brought the App back to the planet stage of a persona
C2_Witness ==
    /\ last.op = "backToPersona"
    /\ stage = "planet"
    /\ selectedPersona = "gym"

\* C3: handleBackToSolar leaves stage = solar, no focused persona, no focused trait
\* and targetPosition = (0,0,0).
C3_BackToSolarRestoresInitial ==
    last.op = "handleBackToSolar" =>
        /\ stage = "solar"
        /\ selectedPersona = Null
        /\ selectedTrait = Null
        /\ targetPosition = Origin

\* C4: 'Back to Persona' leaves stage = planet with the focused persona unchanged and
\* targetPosition equal to that persona's position.
C4_BackRevertsTarget ==
    last.op = "backToPersona" =>
        /\ stage = "planet"
        /\ selectedPersona = last.pre.selectedPersona
        /\ targetPosition = PersonaPosition(selectedPersona)

C6_SelectPersonaFromSolar ==
    (last.op = "handlePlanetClick" /\ last.pre.stage = "solar") =>
        /\ stage = "planet"
        /\ selectedPersona = last.persona
        /\ targetPosition = PersonaPosition(last.persona)
        /\ selectedTrait = Null

\* a persona selected from a solar stage that an earlier visit left with a stale target
C6_Witness ==
    /\ last.op = "handlePlanetClick"
    /\ last.pre.stage = "solar"
    /\ last.pre.targetPosition = TraitNodePosition("tutor", 1)
    /\ selectedPersona = "spiritual"

(***************************************************************************)
(* Properties of the backend                                               *)
(***************************************************************************)

\* the ids of the personas of the catalogue returned by GET /api/personas
CatalogueIds == {ObjectValues(registry)[i].id : i \in DOMAIN aiPersonasKeys}

\* the ids for which generatePersonaResponse defines pools
PoolIds == {"tutor", "spiritual", "gym"}

\* the classification-matched pool of the tutor for a message
TutorPoolFor(message) ==
    IF IsGreeting(toLowerCase(message.chars))
    THEN SeqToSet(greetings["tutor"].items)
    ELSE SeqToSet(responses["tutor"].items)

\* C7: for a persona whose id is not one of the ids with pools, generatePersonaResponse
\* never fails and returns a string of the tutor pool matching the message's classification.
C7_FallbackToTutorPool ==
    \A s \in Sessions :
        (/\ chat[s].outcome.kind # "none"
         /\ chat[s].body.message.kind = "string"
         /\ PropertyKey(IdOf(chat[s].persona)) \notin PoolIds)
        => /\ chat[s].outcome.kind = "return"
           /\ chat[s].outcome.value \in TutorPoolFor(chat[s].body.message)

\* C8: a chat request (with a message) whose personaId is not a registered id is answered
\* 404 before generatePersonaResponse is called: no delay, no selection, no 200.
C8_UnknownPersonaIs404 ==
    \A s \in Sessions :
        (/\ chat[s].pc # "idle"
         /\ Truthy(chat[s].body.message)
         /\ Truthy(chat[s].body.personaId)
         /\ chat[s].body.personaId.text \notin CatalogueIds)
        => /\ chat[s].pc = "done"
           /\ chat[s].response.status = 404
           /\ chat[s].outcome.kind = "none"

\* C9: GET /api/personas/:id answers 404 for every id that is not the id of a persona
\* of the catalogue, and answers with a persona of the catalogue otherwise.
C9_GetByIdNotFound ==
    lookup.route = "/api/personas/:id" =>
        IF lookup.id \in CatalogueIds
        THEN lookup.response.status = 200 /\ lookup.response.body \in SeqToSet(ObjectValues(registry))
        ELSE lookup.response.status = 404

\* C10: every answered chat request ends as a chat response (200), 400 or 404.
C10_OnlyThreeOutcomes ==
    \A s \in Sessions :
        chat[s].pc = "done" => chat[s].response.status \in {200, 400, 404}

\* C11: a chat request whose message or personaId is missing or empty is answered 400
\* with no persona looked up and no response selected, whatever the other field holds:
\* the fields are checked before the lookup, so an unknown personaId does not turn it into 404.
C11_MissingFieldIs400 ==
    \A s \in Sessions :
        (/\ chat[s].pc # "idle"
         /\ ~Truthy(chat[s].body.message) \/ ~Truthy(chat[s].body.personaId))
        => /\ chat[s].pc = "done"
           /\ chat[s].response.status = 400
           /\ chat[s].persona = Undef
           /\ chat[s].outcome = NotCalled

\* an empty message sent with an unknown personaId has been answered
C11_Witness ==
    \E s \in Sessions :
        /\ chat[s].pc = "done"
        /\ chat[s].body.message = StringOf(<<>>)
        /\ chat[s].body.personaId = TextOf("nonexistent")
        /\ chat[s].response.status = 400

\* the strings of the pool of a registered persona for the classification of a message
OwnPoolFor(id, message) ==
    IF IsGreeting(toLowerCase(message.chars))
    THEN {Reply(id, "greeting", i) : i \in 0..2}
    ELSE {Reply(id, "general", i) : i \in 0..3}

\* C12: for a registered persona and a non-empty message, whatever index is drawn, the
\* string returned is one of the 3 greeting strings (greeting message) or of the 4 general
\* strings (otherwise) of that persona, and every string of that pool can be returned.
C12_SelectionClosure ==
    /\ \A s \in Sessions :
          (/\ chat[s].outcome.kind # "none"
           /\ chat[s].persona.kind = "persona"
           /\ chat[s].body.message.kind = "string")
          => /\ chat[s].outcome.kind = "return"
             /\ chat[s].outcome.value \in OwnPoolFor(chat[s].persona.id, chat[s].body.message)
    /\ \A k \in DOMAIN registry :
          \A m \in {x \in Messages : x.kind = "string" /\ x.chars # <<>>} :
              {o.value : o \in generatePersonaResponse(m, registry[k])} = OwnPoolFor(k, m)

\* the last general string of the gym pool has been returned for a general message
C12_Witness ==
    \E s \in Sessions :
        /\ chat[s].pc = "done"
        /\ chat[s].body.personaId = TextOf("gym")
        /\ chat[s].body.message.kind = "string"
        /\ ~IsGreeting(toLowerCase(chat[s].body.message.chars))
        /\ chat[s].outcome = Return(Reply("gym", "general", 3))

\* C14: every successful chat response carries the request's personaId, the trait list of
\* the registry persona with that id, confidence 0.85 and the three suggested actions.
C14_ResponseEnvelope ==
    \A s \in Sessions :
        (chat[s].pc = "done" /\ chat[s].response.status = 200)
        => /\ chat[s].response.personaId = chat[s].body.personaId
           /\ chat[s].body.personaId.text \in CatalogueIds
           /\ chat[s].response.traits = aiPersonas[chat[s].body.personaId.text].traits
           /\ chat[s].response.confidence = 85
           /\ chat[s].response.suggestedActions =
                 <<"Add to Personality", "Ask Follow-up", "Change Topic">>

\* the upper-case form of a lower-case letter
ToUpperChar(c) ==
    IF \E i \in DOMAIN LowerCase : LowerCase[i] = c
    THEN UpperCase[CHOOSE i \in DOMAIN LowerCase : LowerCase[i] = c]
    ELSE c

\* word occurs in chars at some position, each letter in either case
ContainsIgnoringCase(chars, word) ==
    \E start \in 0..(Len(chars) - Len(word)) :
        \A j \in 1..Len(word) :
            chars[start + j] = word[j] \/ chars[start + j] = ToUpperChar(word[j])

\* C13: the classification is Greeting exactly when the message contains 'hi', 'hello' or
\* 'hey' at any position, in any letter case, also inside a longer word; General otherwise.
\* The classification shows in the pool the returned string is taken from.
C13_GreetingIffSubstring ==
    \A s \in Sessions :
        (chat[s].outcome.kind = "return" /\ chat[s].persona.kind = "persona")
        => (chat[s].outcome.value.class = "greeting"
              <=> \/ ContainsIgnoringCase(chat[s].body.message.chars, <<"h", "i">>)
                  \/ ContainsIgnoringCase(chat[s].body.message.chars, <<"h", "e", "l", "l", "o">>)
                  \/ ContainsIgnoringCase(chat[s].body.message.chars, <<"h", "e", "y">>))

\* 'THIS' has been classified as a greeting
C13_Witness ==
    /\ chat["A"].pc = "done"
    /\ chat["A"].body.message = StringOf(<<"T", "H", "I", "S">>)
    /\ chat["A"].outcome.kind = "return"
    /\ chat["A"].outcome.value.class = "greeting"

\* C15: PUT /api/personality answers { success: true } whatever the body names.
C15_PersonalityAlwaysSucceeds ==
    lookup.route = "/api/personality" =>
        /\ lookup.response.status = 200
        /\ lookup.response.body.success = TRUE

\* an update naming no registered persona, no trait of it and no known action has been answered
C15_Witness ==
    /\ lookup.route = "/api/personality"
    /\ lookup.request.personaId = TextOf("nonexistent")
    /\ lookup.request.traitId = TextOf("unknown")
    /\ lookup.request.action = TextOf("bogus")
    /\ lookup.response.status = 200

ResponsesFor(body) ==
    IF ~Truthy(body.message) \/ ~Truthy(body.personaId)
    THEN {ErrorResponse(400, "Message and personaId are required")}
    ELSE LET persona == GetProperty(aiPersonas, PropertyKey(body.personaId))
         IN  IF ~Truthy(persona)
             THEN {ErrorResponse(404, "Persona not found")}
             ELSE {IF o.kind = "throw"
                   THEN ErrorResponse(500, "Internal server error")
                   ELSE ChatResponse(o.value, body.personaId, persona) :
                   o \in generatePersonaResponse(body.message, persona)}

\* C17 as claimed: while a request is suspended in its delay, a request of another session
\* can be accepted, validated, selected and answered: every suspended request can be
\* resumed next, whichever was suspended first.
C17_AnySuspendedAnsweredNext ==
    \A s \in Sessions : chat[s].pc = "delay" => ENABLED TimerFires(s)

\* C17 as amended: a suspended request never keeps another session's request from being
\* accepted and validated (and answered at once when it needs no selection); suspended
\* requests are resumed in the order they were suspended; each response depends on its
\* own request body only.
C17_NoSerialization ==
    /\ \A s \in Sessions :
          chat[s].pc # "delay" => \A body \in Bodies : ENABLED PostChat(s, body)
    /\ timers # <<>> => chat[Head(timers)].pc = "delay" /\ ENABLED TimerFires(Head(timers))
    /\ \A s \in Sessions :
          chat[s].pc = "delay" <=> \E i \in DOMAIN timers : timers[i] = s
    /\ \A s \in Sessions :
          chat[s].pc = "done" => chat[s].response \in ResponsesFor(chat[s].body)

\* both sessions are suspended at once, B's request accepted after A's
C17_Witness ==
    /\ timers = <<"A", "B">>
    /\ chat["A"].pc = "delay"
    /\ chat["B"].pc = "delay"

\* C18: GET /api/personas/:id for the id of a persona returns the element of the list of
\* GET /api/personas that has this id, and the list holds tutor, spiritual, gym in this
\* order, without duplicates.
C18_GetByIdMatchesGetAll ==
    /\ (lookup.route = "/api/personas/:id" /\ lookup.id \in CatalogueIds) =>
          \E i \in DOMAIN ObjectValues(registry) :
              /\ ObjectValues(registry)[i].id = lookup.id
              /\ lookup.response.body = ObjectValues(registry)[i]
              /\ \A j \in DOMAIN ObjectValues(registry) :
                    ObjectValues(registry)[j].id = lookup.id => j = i
    /\ lookup.route = "/api/personas" =>
          /\ Len(lookup.response.body) = 3
          /\ lookup.response.body[1].id = "tutor"
          /\ lookup.response.body[2].id = "spiritual"
          /\ lookup.response.body[3].id = "gym"

\* the last persona of the list has been fetched by its id
C18_Witness ==
    /\ lookup.route = "/api/personas/:id"
    /\ lookup.id = "gym"
    /\ lookup.response.status = 200
    /\ lookup.response.body = ObjectValues(registry)[3]

\* C19: the trait list of every persona contains the core traits of the Sun, each flagged
\* inherited, besides the persona's own traits.
C19_PersonasInheritCoreTraits ==
    /\ \A p \in Personas :
          \A i \in DOMAIN coreTraits :
              coreTraits[i] \in SeqToSet(PersonaTraits(p)) /\ Inherited(coreTraits[i])
    /\ \A k \in DOMAIN registry :
          \E i \in DOMAIN registry[k].traits : registry[k].traits[i].inherited

\* C20: the stage becomes 'trait' only from 'planet' and by handleTraitClick; it becomes
\* 'planet' only from 'solar' by handlePlanetClick or from 'trait' by 'Back to Persona';
\* it never goes from 'solar' to 'trait'; the focused persona changes only in a step that
\* leaves or enters 'solar'.
C20_StageOrder ==
    [][/\ (stage' = "trait" /\ stage # "trait") =>
             (stage = "planet" /\ last'.op = "handleTraitClick")
       /\ (stage' = "planet" /\ stage # "planet") =>
             \/ stage = "solar" /\ last'.op = "handlePlanetClick"
             \/ stage = "trait" /\ last'.op = "backToPersona"
       /\ ~(stage = "solar" /\ stage' = "trait")
       /\ selectedPersona' # selectedPersona => (stage = "solar" \/ stage' = "solar")
      ]_vars

\* the planet stage has been entered again from the trait stage, the persona kept
C20_Witness ==
    /\ last.op = "backToPersona"
    /\ last.pre.stage = "trait"
    /\ stage = "planet"
    /\ selectedPersona = last.pre.selectedPersona
    /\ selectedPersona = "spiritual"

\* C21: handleTraitClick(t, pos) taken in the planet stage with t one of the focused
\* persona's traits yields stage = trait, selectedTrait = t and targetPosition = pos,
\* and leaves the focused persona unchanged.
C21_SelectTraitFromPlanet ==
    (/\ last.op = "handleTraitClick"
     /\ last.pre.stage = "planet"
     /\ last.pre.selectedPersona # Null
     /\ last.trait \in SeqToSet(PersonaTraits(last.pre.selectedPersona)))
    => /\ stage = "trait"
       /\ selectedTrait = last.trait
       /\ targetPosition = last.position
       /\ selectedPersona = last.pre.selectedPersona

\* the third trait of the Spiritual Coach has been selected from its planet stage
C21_Witness ==
    /\ last.op = "handleTraitClick"
    /\ last.pre.stage = "planet"
    /\ last.pre.selectedPersona = "spiritual"
    /\ last.trait = "quiet-pacing"
    /\ last.position = <<-1000, 0, -1732>>
    /\ stage = "trait"

\* C22: in every reachable state whose stage is planet or trait the way back to the solar
\* stage is enabled and leads there in one step; no reachable state is a dead end.
C22_SolarReenterable ==
    /\ stage \in {"planet", "trait"} => ENABLED ClickBackToSolar
    /\ ENABLED Next
    /\ last.op = "handleBackToSolar" => stage = "solar"

\* the solar stage has been entered again from the trait stage
C22_Witness ==
    /\ last.op = "handleBackToSolar"
    /\ last.pre.stage = "trait"
    /\ stage = "solar"

\* C26: the camera is aimed at (0,0,0) in the solar stage, at the focused persona's
\* position in the planet stage, and in the trait stage at the position given to the most
\* recent handleTraitClick, whatever targetPosition holds after a way back.
C26_CameraAim ==
    /\ [](/\ stage = "solar" => LookAt = Origin
          /\ stage = "planet" => LookAt = PersonaPosition(selectedPersona))
    /\ [][/\ (stage # "trait" /\ stage' = "trait") =>
                 (last'.op = "handleTraitClick" /\ LookAt' = last'.position)
          /\ (stage = "trait" /\ stage' = "trait") => LookAt' = LookAt
         ]_vars

\* the planet stage entered again from a trait: targetPosition still holds the trait's position
C26_Witness ==
    /\ last.op = "backToPersona"
    /\ stage = "planet"
    /\ selectedPersona = "tutor"
    /\ targetPosition = TraitNodePosition("tutor", 2)
    /\ LookAt = PersonaPosition("tutor")


\* the message and personaId of a request body, without its correlation fields
Payload(body) == [message |-> body.message, personaId |-> body.personaId]

C25_AnsweredExactlyOnce ==
    /\ \A s \in Sessions : (chat[s].pc = "delay") ~> (chat[s].pc = "done")
    /\ [](\A s \in Sessions :
             /\ chat[s].pc = "done" => sent[s] = 1 /\ chat[s].response.status # 0
             /\ chat[s].pc # "done" => sent[s] = 0)

\* a request whose selector failed has been answered (500) while another one is suspended
C25_Witness ==
    /\ chat["A"].pc = "done"
    /\ chat["A"].outcome.kind = "throw"
    /\ chat["A"].response.status = 500
    /\ sent["A"] = 1
    /\ chat["B"].pc = "delay"


(***************************************************************************)
(* ChatInterface: sending a message                                        *)
(***************************************************************************)

\* the most calls of handleSendMessage that pass its guard
MaxSends == 2

\* what the user types into the input: a blank, 'hi'
InputTexts == {<<" ">>, <<"h", "i">>}

\* String.prototype.trim
RECURSIVE TrimStart(_)
TrimStart(chars) ==
    IF chars # <<>> /\ Head(chars) = " " THEN TrimStart(Tail(chars)) ELSE chars

RECURSIVE TrimEnd(_)
TrimEnd(chars) ==
    IF chars # <<>> /\ chars[Len(chars)] = " "
    THEN TrimEnd(SubSeq(chars, 1, Len(chars) - 1))
    ELSE chars

trim(chars) == TrimEnd(TrimStart(chars))

\* the map without its entry for 'Gym AI'
personaIdMap_NoGym ==
    [name \in {"AI Tutor", "Spiritual Coach"} |->
        CASE name = "AI Tutor"        -> "tutor"
          [] name = "Spiritual Coach" -> "spiritual"]

\* const personaIdMap = { 'AI Tutor': 'tutor', 'Spiritual Coach': 'spiritual', 'Gym AI': 'gym' }
personaIdMap ==
    [name \in {"AI Tutor", "Spiritual Coach", "Gym AI"} |->
        CASE name = "AI Tutor"        -> "tutor"
          [] name = "Spiritual Coach" -> "spiritual"
          [] name = "Gym AI"          -> "gym"]

\* persona.name.toLowerCase().replace(/\s+/g, '-') for the names of the catalogue
Slug(name) ==
    CASE name = "AI Tutor"        -> "ai-tutor"
      [] name = "Spiritual Coach" -> "spiritual-coach"
      [] name = "Gym AI"          -> "gym-ai"

\* personaIdMap[persona.name] || persona.name.toLowerCase().replace(/\s+/g, '-')
PersonaIdFor(name) ==
    IF name \in DOMAIN personaIdMap THEN personaIdMap[name] ELSE Slug(name)

\* the number of calls of handleSendMessage that have passed its guard
Sends == Cardinality({i \in DOMAIN messages : messages[i].sender = "user"})

\* const chatRequest: ChatRequest = { message, personaId, sessionId, context }
ChatRequest(n) ==
    [message |-> StringOf(inputText),
     personaId |-> TextOf(PersonaIdFor(PersonaName(selectedPersona))),
     sessionId |-> [kind |-> "session", n |-> n],
     context |-> [kind |-> "object", previousMessages |-> messages]]

\* the text of the catch block: `This is a simulated response from ${persona.name}. ...`
SimulatedText(name) == [kind |-> "simulated", persona |-> name]

\* fetch rejects: the backend cannot be reached
Rejected == [status |-> 0, error |-> "Failed to fetch"]

\* handleSendMessage guarded by !inputText in place of !inputText.trim()
handleSendMessage_NoTrim ==
    /\ IF inputText = <<>> \/ selectedPersona = Null
       THEN /\ lastUi' = [op |-> "handleSendMessage", passed |-> FALSE, pre |-> UiState]
            /\ UNCHANGED <<messages, inputText, isTyping, inflight>>
       ELSE /\ messages' = Append(messages,
                   Message([kind |-> "input", chars |-> inputText], "user", Null, Sends + 1))
            /\ inputText' = <<>>
            /\ isTyping' = TRUE
            /\ inflight' = inflight \cup
                   {[n |-> Sends + 1, persona |-> selectedPersona, request |-> ChatRequest(Sends + 1)]}
            /\ lastUi' = [op |-> "handleSendMessage", passed |-> TRUE, pre |-> UiState]
    /\ UNCHANGED <<navVars, backendVars>>

\* const handleSendMessage = async () => { ... }, up to await aiService.sendMessage(chatRequest)
handleSendMessage ==
    /\ IF trim(inputText) = <<>> \/ selectedPersona = Null
       THEN /\ lastUi' = [op |-> "handleSendMessage", passed |-> FALSE, pre |-> UiState]
            /\ UNCHANGED <<messages, inputText, isTyping, inflight>>
       ELSE /\ messages' = Append(messages,
                   Message([kind |-> "input", chars |-> inputText], "user", Null, Sends + 1))
            /\ inputText' = <<>>
            /\ isTyping' = TRUE
            /\ inflight' = inflight \cup
                   {[n |-> Sends + 1, persona |-> selectedPersona, request |-> ChatRequest(Sends + 1)]}
            /\ lastUi' = [op |-> "handleSendMessage", passed |-> TRUE, pre |-> UiState]
    /\ UNCHANGED <<navVars, backendVars>>


\* handleSendMessage resumed with a catch block that only logs the error
SendMessageSettles_NoFallback(r, response) ==
    /\ r \in inflight
    /\ messages' =
          IF response.status = 200
          THEN Append(messages, Message(response.message, "ai", PersonaName(r.persona), r.n))
          ELSE messages
    /\ lastUi' = [op |-> "settle", request |-> r, response |-> response]
    /\ isTyping' = FALSE
    /\ inflight' = inflight \ {r}
    /\ UNCHANGED <<inputText, navVars, backendVars>>

\* handleSendMessage resumed after await aiService.sendMessage(chatRequest), the fetch having
\* ended with response: sendMessage returns the body of an ok response and throws on any
\* other status or when fetch rejects; the AI message is the response's message or, from
\* the catch block, the simulated text; finally setIsTyping(false).  persona is the one
\* the call was made with.
SendMessageSettles(r, response) ==
    /\ r \in inflight
    /\ messages' = Append(messages,
           Message(IF response.status = 200 THEN response.message
                   ELSE SimulatedText(PersonaName(r.persona)),
                   "ai", PersonaName(r.persona), r.n))
    /\ lastUi' = [op |-> "settle", request |-> r, response |-> response]
    /\ isTyping' = FALSE
    /\ inflight' = inflight \ {r}
    /\ UNCHANGED <<inputText, navVars, backendVars>>

\* <input onChange={(e) => setInputText(e.target.value)} />, rendered while the chat is open
SetInputText(text) ==
    /\ isChatOpen
    /\ inputText' = text
    /\ lastUi' = [op |-> "setInputText"]
    /\ UNCHANGED <<messages, isTyping, inflight, navVars, backendVars>>

\* <button onClick={handleSendMessage} disabled={!inputText.trim() || isTyping}>
ClickSend ==
    /\ isChatOpen
    /\ ~(trim(inputText) = <<>> \/ isTyping)
    /\ Sends < MaxSends
    /\ handleSendMessage

\* handleKeyPress: Enter without Shift in the input calls handleSendMessage
PressEnter ==
    /\ isChatOpen
    /\ Sends < MaxSends
    /\ handleSendMessage

\* the ChatInterface of a persona as the user drives it, the backend answering or not
NextChat ==
    \/ ClickPlanet
    \/ ClickCloseChat
    \/ \E text \in InputTexts : SetInputText(text)
    \/ ClickSend
    \/ PressEnter
    \/ \E r \in inflight :
          \E response \in ResponsesFor(r.request) \cup {Rejected} : SendMessageSettles(r, response)

\* the App and its ChatInterface as the user drives them while the backend cannot be
\* reached: every fetch rejects
NextChatOffline ==
    \/ ClickPlanet
    \/ ClickBackToSolar
    \/ ClickCloseChat
    \/ \E text \in InputTexts : SetInputText(text)
    \/ ClickSend
    \/ PressEnter
    \/ \E r \in inflight : SendMessageSettles(r, Rejected)

SpecChat == Init /\ [][NextChat]_vars
SpecChatOffline == Init /\ [][NextChatOffline]_vars


(***************************************************************************)
(* Properties of the ChatInterface                                         *)
(***************************************************************************)

\* the places in the list of the messages of a sender that come from the n-th send
MessagesOf(sender, n) ==
    {i \in DOMAIN messages : messages[i].sender = sender /\ messages[i].cause = n}

\* the name of the persona the n-th send was made with
SendPersonaName(n) ==
    IF \E r \in inflight : r.n = n
    THEN PersonaName((CHOOSE r \in inflight : r.n = n).persona)
    ELSE messages[CHOOSE j \in MessagesOf("ai", n) : TRUE].persona

\* C24: each handleSendMessage that passes its guard appends one user message and, once the
\* backend call has resolved or failed, one AI message after it: the backend's text on
\* success, the simulated text on any failure.
C24_OneReplyPerSend ==
    /\ \A n \in 1..Sends :
          /\ Cardinality(MessagesOf("user", n)) = 1
          /\ Cardinality(MessagesOf("ai", n)) = IF \E r \in inflight : r.n = n THEN 0 ELSE 1
          /\ \A i \in MessagesOf("user", n), j \in MessagesOf("ai", n) : i < j
    /\ \A i \in DOMAIN messages : messages[i].cause \in 0..Sends
    /\ Len(messages) = 1 + 2 * Sends - Cardinality(inflight)
    /\ lastUi.op = "settle" =>
          /\ messages[Len(messages)].sender = "ai"
          /\ messages[Len(messages)].cause = lastUi.request.n
          /\ messages[Len(messages)].text =
                IF lastUi.response.status = 200
                THEN lastUi.response.message
                ELSE SimulatedText(PersonaName(lastUi.request.persona))
          /\ lastUi.response.status = 200 =>
                lastUi.response.message \in
                    OwnPoolFor(lastUi.request.persona, lastUi.request.request.message)

\* a second exchange has ended with the simulated text after a fetch that failed, the
\* first one with a text of the backend
C24_Witness ==
    /\ lastUi.op = "settle"
    /\ lastUi.response = Rejected
    /\ Len(messages) = 5
    /\ messages[3].text.kind = "reply"
    /\ messages[4].sender = "user"
    /\ messages[5].text = SimulatedText("AI Tutor")

\* C27: at most one chat request is in flight at any time, and isTyping is true exactly
\* while a request is in flight.
C27_SingleRequestInFlight ==
    /\ Cardinality(inflight) <= 1
    /\ isTyping <=> inflight # {}

\* C28: handleSendMessage called with an input that is empty or only blanks, or while no
\* persona is selected, sends no request and leaves messages, inputText and isTyping as
\* they were.
C28_GuardedSendChangesNothing ==
    (/\ lastUi.op = "handleSendMessage"
     /\ \/ \A i \in DOMAIN lastUi.pre.inputText : lastUi.pre.inputText[i] = " "
        \/ lastUi.pre.persona = Null)
    => /\ ~lastUi.passed
       /\ messages = lastUi.pre.messages
       /\ inputText = lastUi.pre.inputText
       /\ isTyping = lastUi.pre.isTyping
       /\ inflight = lastUi.pre.inflight

\* Enter pressed with 'hi' typed after the way back to the solar stage, a request in flight
C28_Witness ==
    /\ lastUi.op = "handleSendMessage"
    /\ lastUi.pre.persona = Null
    /\ lastUi.pre.inputText = <<"h", "i">>
    /\ lastUi.pre.isTyping
    /\ inflight # {}
    /\ inputText = <<"h", "i">>

\* C29: for each frontend persona the personaId put in the chat request is the persona's id
\* in the frontend catalogue and an id of the backend registry: no request sent for a
\* selected persona is answered 404.
C29_PersonaIdRegistered ==
    /\ \A p \in Personas : PersonaIdFor(PersonaName(p)) = p /\ p \in CatalogueIds
    /\ \A r \in inflight :
          /\ r.request.personaId = TextOf(r.persona)
          /\ r.persona \in CatalogueIds
          /\ \A response \in ResponsesFor(r.request) : response.status # 404
    /\ lastUi.op = "settle" => lastUi.response.status # 404

\* a request sent for the Gym AI has been answered 200
C29_Witness ==
    /\ lastUi.op = "settle"
    /\ lastUi.request.persona = "gym"
    /\ lastUi.request.request.personaId = TextOf("gym")
    /\ lastUi.response.status = 200

\* C30: while the chat of a selected persona is shown, the list starts with that persona's
\* welcome message and holds only messages of the conversation with that persona.
C30_MessagesOfSelectedPersona ==
    (isChatOpen /\ selectedPersona # Null) =>
        /\ messages[1].text = WelcomeText(selectedPersona)
        /\ \A i \in DOMAIN messages :
              i > 1 => SendPersonaName(messages[i].cause) = PersonaName(selectedPersona)

====
